---- MODULE Spec2Model ----
(***************************************************************************)
(* Retrieval and ranking pipeline of Novera-AI:                            *)
(*   backend/app/services/retrieval/vector_search.py                       *)
(*   backend/app/services/retrieval/hybrid_search.py                       *)
(*   backend/app/services/retrieval/pipeline.py                            *)
(* Python dicts are records with a field "keys" naming the keys that are   *)
(* present; scores are exact rationals [n, d] (d > 0), so that rank        *)
(* fusion and tie handling are computed without rounding.                  *)
(***************************************************************************)
EXTENDS Integers, Sequences, FiniteSets, TLC

VARIABLES documents, chunkTable, settings, req, processed_query, pc, call,
          semantic_results, keyword_results, results, sorted_results,
          search_results, reranked_results, final_context,
          exception, io_trace, other, chat

vars == <<documents, chunkTable, settings, req, processed_query, pc, call,
          semantic_results, keyword_results, results, sorted_results,
          search_results, reranked_results, final_context,
          exception, io_trace, other, chat>>

----------------------------------------------------------------------------
(* Bounds of the model *)

NChunks == 4
MaxK == 2
MaxCand == 3
MaxBudget == 3

ChunkIds == 1..NChunks
DocIds == {1, 2}
TopKs == 0..MaxK

(* Program constants *)

retrieval_top_k == 20
rerank_top_k == 8
similarity_threshold == 70
rrf_k == 60
TableBoost == 1000
ExpandTop == 5

None == 0

----------------------------------------------------------------------------
(* Rationals: [n |-> numerator, d |-> denominator], d > 0 *)

RECURSIVE GCD(_, _)
GCD(a, b) == IF b = 0 THEN a ELSE GCD(b, a % b)

Rat(n, d) == LET g == GCD(n, d) IN [n |-> n \div g, d |-> d \div g]
RZero == Rat(0, 1)
RAdd(a, b) == Rat(a.n * b.d + b.n * a.d, a.d * b.d)
RMul(a, b) == Rat(a.n * b.n, a.d * b.d)
RSub(a, b) == Rat(a.n * b.d - b.n * a.d, a.d * b.d)
REq(a, b) == a.n * b.d = b.n * a.d
RLess(a, b) == a.n * b.d < b.n * a.d
RLeq(a, b) == a.n * b.d <= b.n * a.d

----------------------------------------------------------------------------
(* Sequence helpers *)

Range(s) == {s[i] : i \in 1..Len(s)}
Min(a, b) == IF a <= b THEN a ELSE b
Prefix(s, n) == SubSeq(s, 1, Min(n, Len(s)))
InjSeqs(S, n) == {s \in [1..n -> S] : \A i, j \in 1..n : i # j => s[i] # s[j]}
Ids(s) == [i \in 1..Len(s) |-> s[i].chunk_id]
PosOf(ids, c) == IF \E i \in 1..Len(ids) : ids[i] = c
                 THEN CHOOSE i \in 1..Len(ids) : ids[i] = c
                 ELSE 0

RECURSIVE SumSeq(_)
SumSeq(s) == IF s = <<>> THEN 0 ELSE s[1] + SumSeq(Tail(s))

----------------------------------------------------------------------------
(* Python dicts *)

Has(d, key) == key \in d.keys

BlankChunk ==
  [keys |-> {}, chunk_id |-> 0, document_id |-> 0, chunk_type |-> "",
   chunk_index |-> 0, token_count |-> 0, page_numbers |-> <<>>,
   section_title |-> None, similarity_score |-> 0,
   semantic_rank |-> 0, semantic_score |-> 0,
   keyword_rank |-> 0, keyword_score |-> 0,
   fused_score |-> RZero, rerank_score |-> RZero,
   retrieval_method |-> <<>>, is_target |-> FALSE,
   is_expanded_context |-> FALSE, parent_chunk_id |-> None,
   document_title |-> 0, doc_type |-> "", department |-> ""]

(* an exception leaving the call: its type and the call that raised it *)
NoException == [type |-> "", at |-> ""]
Raise(type, at) == [type |-> type, at |-> at]

(* an awaited call to a provider or to the store, and whether it succeeded *)
Issued(name) == [call |-> name, ok |-> TRUE]
Failed(name) == [call |-> name, ok |-> FALSE]

----------------------------------------------------------------------------
(* Vector Search Channel *)

EligibleAnyStatus(dt, dep, ids) ==
  {c \in ChunkIds :
     LET d == documents[chunkTable[c].document_id] IN
       /\ (dt # "" => d.doc_type = dt)
       /\ (dep # "" => d.department = dep)
       /\ (ids # {} => chunkTable[c].document_id \in ids)}

(* WHERE clause of the similarity query *)
Eligible(dt, dep, ids) ==
  {c \in ChunkIds :
     LET d == documents[chunkTable[c].document_id] IN
       /\ d.status = "completed"
       /\ (dt # "" => d.doc_type = dt)
       /\ (dep # "" => d.department = dep)
       /\ (ids # {} => chunkTable[c].document_id \in ids)}

(* ORDER BY similarity DESC LIMIT k: every answer the store may give when *)
(* rows tie on similarity                                                  *)
SimilarRows(k, dt, dep, ids) ==
  LET E == Eligible(dt, dep, ids)
      n == Min(k, Cardinality(E))
  IN {r \in InjSeqs(E, n) :
        /\ \A i \in 1..(n - 1) : chunkTable[r[i]].sim >= chunkTable[r[i + 1]].sim
        /\ \A c \in E \ Range(r) : n > 0 /\ chunkTable[c].sim <= chunkTable[r[n]].sim}

VectorChunkDict(c) ==
  LET ch == chunkTable[c]
      d == documents[ch.document_id]
  IN [BlankChunk EXCEPT
        !.keys = {"chunk_id", "document_id", "content", "chunk_type",
                  "page_numbers", "section_title", "token_count",
                  "similarity_score", "metadata"},
        !.chunk_id = c, !.document_id = ch.document_id,
        !.chunk_type = ch.chunk_type, !.page_numbers = ch.page_numbers,
        !.section_title = ch.section_title, !.token_count = ch.token_count,
        !.similarity_score = ch.sim, !.document_title = ch.document_id,
        !.doc_type = d.doc_type, !.department = d.department]

NotAboveThreshold(similarity) == similarity <= similarity_threshold

BelowThreshold(similarity) == similarity < similarity_threshold

RECURSIVE FormatRows(_)
FormatRows(rows) ==
  IF rows = <<>> THEN <<>>
  ELSE IF BelowThreshold(chunkTable[rows[1]].sim) THEN FormatRows(Tail(rows))
  ELSE <<VectorChunkDict(rows[1])>> \o FormatRows(Tail(rows))

DefaultK(top_k) == IF top_k = None THEN retrieval_top_k ELSE top_k

search_similar_chunks(top_k, dt, dep, ids) ==
  {FormatRows(r) : r \in SimilarRows(DefaultK(top_k), dt, dep, ids)}

search_by_document_unfiltered(document_id, top_k) ==
  search_similar_chunks(top_k, "", "", {})

search_by_document(document_id, top_k) ==
  search_similar_chunks(top_k, "", "", {document_id})

----------------------------------------------------------------------------
(* Keyword Search Channel (keyword_search.py): up to k chunks of completed *)
(* documents passing the filters, in descending lexical score              *)

KeywordChunkDict(c, score) ==
  LET ch == chunkTable[c]
      d == documents[ch.document_id]
  IN [BlankChunk EXCEPT
        !.keys = {"chunk_id", "document_id", "content", "chunk_type",
                  "page_numbers", "section_title", "token_count",
                  "keyword_score", "metadata"},
        !.chunk_id = c, !.document_id = ch.document_id,
        !.chunk_type = ch.chunk_type, !.page_numbers = ch.page_numbers,
        !.section_title = ch.section_title, !.token_count = ch.token_count,
        !.keyword_score = score, !.document_title = ch.document_id,
        !.doc_type = d.doc_type, !.department = d.department]

search_keywords(top_k, dt, dep) ==
  LET E == {c \in Eligible(dt, dep, {}) : chunkTable[c].lexical}
      k == DefaultK(top_k)
  IN UNION {{[i \in 1..n |-> KeywordChunkDict(r[i], n - i + 1)] : r \in InjSeqs(E, n)} :
              n \in 0..Min(k, Cardinality(E))}

----------------------------------------------------------------------------
(* Fusion Engine: HybridSearchService *)

Alpha == Rat(settings.hybrid_alpha, 10)

InPool(pool, c) == \E i \in 1..Len(pool) : pool[i].chunk_id = c

(* hybrid_search.py:72-80, one iteration per call *)
AddSemantic(pool, chunk, idx) ==
  IF ~InPool(pool, chunk.chunk_id)
  THEN Append(pool, [chunk EXCEPT !.keys = @ \cup {"semantic_rank", "semantic_score"},
                                   !.semantic_rank = idx,
                                   !.semantic_score = chunk.similarity_score])
  ELSE [i \in 1..Len(pool) |->
          IF pool[i].chunk_id = chunk.chunk_id
          THEN [pool[i] EXCEPT !.keys = @ \cup {"semantic_rank", "semantic_score"},
                                !.semantic_rank = idx,
                                !.semantic_score = chunk.similarity_score]
          ELSE pool[i]]

AddKeywordNoDedup(pool, chunk, idx) ==
  Append(pool, [chunk EXCEPT !.keys = @ \cup {"keyword_rank", "keyword_score"},
                             !.keyword_rank = idx])

(* hybrid_search.py:96-104, one iteration per call *)
AddKeyword(pool, chunk, idx) ==
  LET score == IF Has(chunk, "keyword_score") THEN chunk.keyword_score ELSE 0 IN
  IF ~InPool(pool, chunk.chunk_id)
  THEN Append(pool, [chunk EXCEPT !.keys = @ \cup {"keyword_rank", "keyword_score"},
                                   !.keyword_rank = idx,
                                   !.keyword_score = score])
  ELSE [i \in 1..Len(pool) |->
          IF pool[i].chunk_id = chunk.chunk_id
          THEN [pool[i] EXCEPT !.keys = @ \cup {"keyword_rank", "keyword_score"},
                                !.keyword_rank = idx,
                                !.keyword_score = score]
          ELSE pool[i]]

RECURSIVE MergeSemantic(_, _, _)
MergeSemantic(pool, list, idx) ==
  IF idx > Len(list) THEN pool
  ELSE MergeSemantic(AddSemantic(pool, list[idx], idx), list, idx + 1)

RECURSIVE MergeKeyword(_, _, _)
MergeKeyword(pool, list, idx) ==
  IF idx > Len(list) THEN pool
  ELSE MergeKeyword(AddKeyword(pool, list[idx], idx), list, idx + 1)

SemanticContributionSwapped(chunk) ==
  IF Has(chunk, "semantic_rank")
  THEN RMul(Rat(1, rrf_k + chunk.semantic_rank), RSub(Rat(1, 1), Alpha))
  ELSE RZero

SemanticContribution(chunk) ==
  IF Has(chunk, "semantic_rank")
  THEN RMul(Rat(1, rrf_k + chunk.semantic_rank), Alpha)
  ELSE RZero

KeywordContribution(chunk) ==
  IF Has(chunk, "keyword_rank")
  THEN RMul(Rat(1, rrf_k + chunk.keyword_rank), RSub(Rat(1, 1), Alpha))
  ELSE RZero

RetrievalMethod(chunk) ==
  (IF Has(chunk, "semantic_rank") THEN <<"semantic">> ELSE <<>>)
    \o (IF Has(chunk, "keyword_rank") THEN <<"keyword">> ELSE <<>>)

reciprocal_rank_fusion(pool) ==
  [i \in 1..Len(pool) |->
     [pool[i] EXCEPT
        !.keys = @ \cup {"fused_score", "retrieval_method"},
        !.fused_score = RAdd(RAdd(RZero, SemanticContribution(pool[i])),
                             KeywordContribution(pool[i])),
        !.retrieval_method = RetrievalMethod(pool[i])]]

(* sorted(..., key=fused_score, reverse=True): stable, descending *)
InsertByFused(sorted, x) ==
  LET after == {i \in 1..Len(sorted) : RLess(sorted[i].fused_score, x.fused_score)}
      p == IF after = {} THEN Len(sorted) + 1
           ELSE CHOOSE i \in after : \A j \in after : i <= j
  IN SubSeq(sorted, 1, p - 1) \o <<x>> \o SubSeq(sorted, p, Len(sorted))

SortByFusedSkipped(s) == s

RECURSIVE SortByFused(_)
SortByFused(s) ==
  IF s = <<>> THEN <<>>
  ELSE InsertByFused(SortByFused(SubSeq(s, 1, Len(s) - 1)), s[Len(s)])

FuseSortNoCut(pool, top_k) == SortByFused(reciprocal_rank_fusion(pool))

(* hybrid_search.py:108-121 *)
FuseSortCut(pool, top_k) ==
  Prefix(SortByFused(reciprocal_rank_fusion(pool)), DefaultK(top_k))

(* HybridSearchService.search up to the end of the semantic block *)
SearchSemantic ==
  /\ pc = "search_semantic"
  /\ IF call.use_semantic
     THEN \E list \in search_similar_chunks(DefaultK(call.top_k) * 2,
                                            call.doc_type, call.department, {}) :
            /\ semantic_results' = list
            /\ results' = MergeSemantic(<<>>, list, 1)
            /\ io_trace' = io_trace \o <<Issued("embed_query"),
                                         Issued("search_similar_chunks")>>
     ELSE /\ semantic_results' = <<>>
          /\ results' = <<>>
          /\ io_trace' = io_trace
  /\ pc' = "search_keyword"
  /\ UNCHANGED <<documents, chunkTable, settings, req, processed_query, call,
                 keyword_results, sorted_results, search_results,
                 reranked_results, final_context, exception, other>>
  /\ UNCHANGED chat

(* HybridSearchService.search from the keyword block to the return *)
SearchKeyword ==
  /\ pc = "search_keyword"
  /\ \E list \in (IF call.use_keyword
                   THEN search_keywords(DefaultK(call.top_k), call.doc_type, call.department)
                   ELSE {<<>>}) :
       LET pool == MergeKeyword(results, list, 1) IN
         /\ keyword_results' = list
         /\ results' = reciprocal_rank_fusion(pool)
         /\ sorted_results' = FuseSortCut(pool, call.top_k)
  /\ io_trace' = IF call.use_keyword
                 THEN Append(io_trace, Issued("search_keywords")) ELSE io_trace
  /\ pc' = "search_return"
  /\ UNCHANGED <<documents, chunkTable, settings, req, processed_query, call,
                 semantic_results, search_results, reranked_results, final_context,
                 exception, other>>
  /\ UNCHANGED chat

----------------------------------------------------------------------------
(* Context Assembler: RetrievalPipeline._assemble_context *)

BoostedFinancialOnly == processed_query.intent = "financial"

(* pipeline.py:209-217 *)
Boosted ==
  processed_query.intent \in {"financial", "analytical"}
    \/ "amount" \in processed_query.entities

(* get_priority: the tuple (priority, rerank_score) *)
get_priority(chunk) ==
  [priority |-> IF chunk.chunk_type = "table" /\ Boosted THEN TableBoost ELSE 0,
   score |-> IF Has(chunk, "rerank_score") THEN chunk.rerank_score
             ELSE IF Has(chunk, "fused_score") THEN chunk.fused_score
             ELSE RZero]

KeyLessSwapped(a, b) ==
  \/ b.priority < a.priority
  \/ a.priority = b.priority /\ RLess(b.score, a.score)

(* Python tuple order *)
KeyLess(a, b) ==
  \/ a.priority < b.priority
  \/ a.priority = b.priority /\ RLess(a.score, b.score)

(* sorted(chunks, key=get_priority, reverse=True): stable, descending *)
InsertByPriority(sorted, x) ==
  LET after == {i \in 1..Len(sorted) : KeyLess(get_priority(sorted[i]), get_priority(x))}
      p == IF after = {} THEN Len(sorted) + 1
           ELSE CHOOSE i \in after : \A j \in after : i <= j
  IN SubSeq(sorted, 1, p - 1) \o <<x>> \o SubSeq(sorted, p, Len(sorted))

RECURSIVE prioritize_chunks(_)
prioritize_chunks(chunks) ==
  IF chunks = <<>> THEN <<>>
  ELSE InsertByPriority(prioritize_chunks(SubSeq(chunks, 1, Len(chunks) - 1)),
                        chunks[Len(chunks)])

ChunkTokens(chunk) == IF Has(chunk, "token_count") THEN chunk.token_count ELSE 0

OverBudgetOffByOne(total, chunk_tokens) ==
  total + chunk_tokens > settings.max_context_tokens + 1

(* pipeline.py:163 *)
OverBudget(total, chunk_tokens) ==
  total + chunk_tokens > settings.max_context_tokens

(* pipeline.py:230-263: the header parts and the content *)
format_chunk_for_context(chunk) ==
  [document |-> IF Has(chunk, "metadata") THEN chunk.document_title ELSE None,
   section |-> IF Has(chunk, "section_title") THEN chunk.section_title ELSE None,
   pages |-> IF Has(chunk, "page_numbers") THEN chunk.page_numbers ELSE <<>>,
   type |-> IF Has(chunk, "chunk_type") /\ chunk.chunk_type # "text"
            THEN chunk.chunk_type ELSE "",
   content |-> chunk.chunk_id]

(* pipeline.py:172-177; page_numbers[0] of an empty list raises *)
PageRaises(chunk) == Has(chunk, "page_numbers") /\ chunk.page_numbers = <<>>

SourceInfo(chunk) ==
  [document |-> chunk.document_title,
   page |-> IF Has(chunk, "page_numbers") THEN chunk.page_numbers[1] ELSE None,
   section |-> IF Has(chunk, "section_title") THEN chunk.section_title ELSE None,
   chunk_id |-> chunk.chunk_id]

AddSourceFirst(sources, source_info) ==
  IF \E j \in 1..Len(sources) : sources[j] = source_info
  THEN sources ELSE <<source_info>> \o sources

(* pipeline.py:179-180 *)
AddSource(sources, source_info) ==
  IF \E j \in 1..Len(sources) : sources[j] = source_info
  THEN sources ELSE Append(sources, source_info)

(* the loop of pipeline.py:159-183 from position i on *)
RECURSIVE Pack(_, _, _)
Pack(sorted, i, acc) ==
  IF i > Len(sorted) THEN acc
  ELSE IF OverBudget(acc.total_tokens, ChunkTokens(sorted[i])) THEN acc
  ELSE IF PageRaises(sorted[i]) THEN [acc EXCEPT !.raised = TRUE]
  ELSE Pack(sorted, i + 1,
            [acc EXCEPT
               !.context_text = Append(@, format_chunk_for_context(sorted[i])),
               !.sources = AddSource(@, SourceInfo(sorted[i])),
               !.chunks = Append(@, sorted[i]),
               !.total_tokens = @ + ChunkTokens(sorted[i])])

NoContext ==
  [chunks |-> <<>>, context_text |-> <<>>, total_tokens |-> 0, sources |-> <<>>,
   raised |-> FALSE]

assemble_context(chunks) == Pack(prioritize_chunks(chunks), 1, NoContext)

(* RetrievalPipeline._assemble_context called on the candidate list *)
AssembleContext ==
  /\ pc = "assemble"
  /\ final_context' = assemble_context(reranked_results)
  /\ pc' = IF final_context'.raised THEN "raised" ELSE "done"
  /\ exception' = IF final_context'.raised
                  THEN Raise("IndexError", "assemble_context") ELSE exception
  /\ UNCHANGED <<documents, chunkTable, settings, req, processed_query, call,
                 semantic_results, keyword_results, results, sorted_results,
                 search_results, reranked_results, io_trace, other>>
  /\ UNCHANGED chat

(* VectorSearchService.search_similar_chunks called directly *)
CallVectorSearch ==
  /\ pc = "vector_call"
  /\ semantic_results' \in search_similar_chunks(req.top_k, req.doc_type,
                                                 req.department, req.document_ids)
  /\ io_trace' = Append(io_trace, Issued("search_similar_chunks"))
  /\ pc' = "vector_return"
  /\ UNCHANGED <<documents, chunkTable, settings, req, processed_query, call,
                 keyword_results, results, sorted_results, search_results,
                 reranked_results, final_context, exception, other>>
  /\ UNCHANGED chat

----------------------------------------------------------------------------
(* The store *)

DocOf(c) == IF c % 2 = 1 THEN 1 ELSE 2
IndexOf(c) == (c - 1) \div 2

PlainDocument == [status |-> "completed", doc_type |-> "finance", department |-> "hr"]

PlainChunk(c) ==
  [document_id |-> DocOf(c), chunk_index |-> IndexOf(c), chunk_type |-> "text",
   token_count |-> 1, page_numbers |-> <<1>>, section_title |-> "s", sim |-> 81,
   lexical |-> TRUE]

NoReq == [top_k |-> None, top_k_is_none |-> TRUE, doc_type |-> "", department |-> "",
          document_ids |-> {}, document_id |-> None, include_context |-> FALSE]
NoCall == [top_k |-> None, use_semantic |-> TRUE, use_keyword |-> TRUE,
           doc_type |-> "", department |-> ""]
NoQuery == [intent |-> "general", entities |-> {}, semantic_only |-> FALSE,
            keyword_only |-> FALSE]
DefaultSettings == [hybrid_alpha |-> 7, max_context_tokens |-> 3]

(* the locals of a second retrieve call suspended at an await *)
NoFrame ==
  [id |-> 0, req |-> NoReq, processed_query |-> NoQuery, pc |-> "", call |-> NoCall,
   semantic_results |-> <<>>, keyword_results |-> <<>>, results |-> <<>>,
   sorted_results |-> <<>>, search_results |-> <<>>, reranked_results |-> <<>>,
   final_context |-> NoContext, exception |-> NoException, io_trace |-> <<>>]

(* the locals of ChatService.chat (chat_service.py:116-119) and its response *)
NoResponse == [status |-> "", chunks_used |-> 0, sources |-> <<>>, searched_documents |-> FALSE]
NoChat ==
  [pc |-> "", should_search |-> FALSE, stream |-> FALSE, context |-> <<>>,
   sources |-> <<>>, chunks_used |-> 0, retrieval_failed |-> FALSE,
   generated_with |-> <<"none">>, response |-> NoResponse]

----------------------------------------------------------------------------
(* Fusion: search() called on a store whose similarities are drawn freely *)

Alphas == {5, 7, 10}

(* the semantic list is any subset of the chunks, by ascending id; the    *)
(* keyword list is any list, so every pair of lists occurs up to renaming *)
FusionChunk(c, similar) ==
  [PlainChunk(c) EXCEPT !.sim = IF similar THEN 90 - c ELSE 65]

InitFusion ==
  /\ documents = [d \in DocIds |-> PlainDocument]
  /\ \E similar \in [ChunkIds -> BOOLEAN] :
       chunkTable = [c \in ChunkIds |-> FusionChunk(c, similar[c])]
  /\ \E a \in Alphas : settings = [DefaultSettings EXCEPT !.hybrid_alpha = a]
  /\ \E k \in TopKs, us, uk \in BOOLEAN :
       call = [NoCall EXCEPT !.top_k = k, !.use_semantic = us, !.use_keyword = uk]
  /\ req = NoReq
  /\ processed_query = NoQuery
  /\ pc = "search_semantic"
  /\ semantic_results = <<>>
  /\ keyword_results = <<>>
  /\ results = <<>>
  /\ sorted_results = <<>>
  /\ search_results = <<>>
  /\ reranked_results = <<>>
  /\ final_context = NoContext
  /\ exception = NoException
  /\ io_trace = <<>>
  /\ other = NoFrame
  /\ chat = NoChat

NextFusion == SearchSemantic \/ SearchKeyword

SpecFusion == InitFusion /\ [][NextFusion]_vars

----------------------------------------------------------------------------
(* Properties of the Fusion Engine *)

SearchReturned == pc = "search_return"
SemRank(c) == PosOf(Ids(semantic_results), c)
KwRank(c) == PosOf(Ids(keyword_results), c)
ChannelIds == Range(Ids(semantic_results)) \cup Range(Ids(keyword_results))
EntriesOf(list, c) == {i \in 1..Len(list) : list[i].chunk_id = c}

(* n/d = a/(10(60+sr)) [sr > 0] + (10-a)/(10(60+kr)) [kr > 0] *)
IsRRF(score, a, sr, kr) ==
  score.n * 10 * (rrf_k + sr) * (rrf_k + kr) =
    score.d * ((IF sr > 0 THEN a * (rrf_k + kr) ELSE 0)
               + (IF kr > 0 THEN (10 - a) * (rrf_k + sr) ELSE 0))

(* C2: every chunk of the fused pool has fused_score =                    *)
(* alpha/(60 + semantic rank) if it is in the semantic list, plus         *)
(* (1 - alpha)/(60 + keyword rank) if it is in the keyword list, ranks    *)
(* being 1-based positions in the channel lists; with alpha = 0.7 a chunk *)
(* at semantic rank 1 only scores 0.7/61, at keyword rank 1 only 0.3/61.  *)
C2_RRFScore ==
  SearchReturned =>
    \A i \in 1..Len(results) :
      LET e == results[i]
          sr == SemRank(e.chunk_id)
          kr == KwRank(e.chunk_id)
      IN /\ Has(e, "fused_score")
         /\ IsRRF(e.fused_score, settings.hybrid_alpha, sr, kr)
         /\ (settings.hybrid_alpha = 7 /\ sr = 1 /\ kr = 0) => e.fused_score = [n |-> 7, d |-> 610]
         /\ (settings.hybrid_alpha = 7 /\ sr = 0 /\ kr = 1) => e.fused_score = [n |-> 3, d |-> 610]

C2_Witness ==
  /\ SearchReturned
  /\ settings.hybrid_alpha = 7
  /\ \E i, j, l \in 1..Len(results) :
       /\ SemRank(results[i].chunk_id) = 1 /\ KwRank(results[i].chunk_id) = 0
       /\ SemRank(results[j].chunk_id) = 0 /\ KwRank(results[j].chunk_id) = 1
       /\ SemRank(results[l].chunk_id) = 2 /\ KwRank(results[l].chunk_id) = 2

BothLists(c) == SemRank(c) > 0 /\ KwRank(c) > 0
CarriesBoth(e) ==
  /\ {"semantic_rank", "semantic_score", "keyword_rank", "keyword_score"} \subseteq e.keys
  /\ e.semantic_rank = SemRank(e.chunk_id)
  /\ e.semantic_score = semantic_results[SemRank(e.chunk_id)].similarity_score
  /\ e.keyword_rank = KwRank(e.chunk_id)
  /\ e.keyword_score = keyword_results[KwRank(e.chunk_id)].keyword_score

(* C3 as stated: a chunk id in both channel lists appears exactly once in *)
(* the list search() returns, with both ranks and scores.                  *)
C3_Original ==
  SearchReturned =>
    \A c \in ChunkIds :
      BothLists(c) =>
        /\ Cardinality(EntriesOf(sorted_results, c)) = 1
        /\ \A i \in EntriesOf(sorted_results, c) : CarriesBoth(sorted_results[i])

(* C3 amended: a chunk id in both channel lists appears exactly once in   *)
(* the fused pool and at most once in the list search() returns (the cut  *)
(* to k may drop it); every entry for it carries both its semantic and    *)
(* its keyword rank and score; no chunk id appears twice in either.       *)
C3_Dedup ==
  SearchReturned =>
    \A c \in ChunkIds :
      /\ Cardinality(EntriesOf(results, c)) <= 1
      /\ Cardinality(EntriesOf(sorted_results, c)) <= 1
      /\ BothLists(c) =>
           /\ Cardinality(EntriesOf(results, c)) = 1
           /\ \A i \in EntriesOf(results, c) : CarriesBoth(results[i])
           /\ \A i \in EntriesOf(sorted_results, c) : CarriesBoth(sorted_results[i])

C3_Witness ==
  /\ SearchReturned
  /\ \E c, c2 \in ChunkIds :
       /\ BothLists(c) /\ EntriesOf(sorted_results, c) # {}
       /\ BothLists(c2) /\ EntriesOf(sorted_results, c2) = {}

(* C4: the list search() returns is in non-increasing fused_score order;  *)
(* semantic [1, 2], keyword [2, 3], alpha = 0.7 fuse to 2, 1, 3.          *)
C4_SortedByFused ==
  SearchReturned =>
    /\ \A i \in 1..(Len(sorted_results) - 1) :
         RLeq(sorted_results[i + 1].fused_score, sorted_results[i].fused_score)
    /\ (/\ settings.hybrid_alpha = 7
        /\ Ids(semantic_results) = <<1, 2>>
        /\ Ids(keyword_results) = <<2, 3>>
        /\ DefaultK(call.top_k) >= 3)
         => Ids(sorted_results) = <<2, 1, 3>>

C4_Witness ==
  /\ SearchReturned
  /\ settings.hybrid_alpha = 7
  /\ Ids(semantic_results) = <<1, 2>>
  /\ Ids(keyword_results) = <<2, 3>>
  /\ Ids(sorted_results) = <<2, 1, 3>>

(* C5 as stated: every chunk id returned by either channel is in the list *)
(* search() hands on, whatever the cap k.                                  *)
C5_Original ==
  SearchReturned => ChannelIds \subseteq Range(Ids(sorted_results))

(* C5 amended: search() hands on the first k entries of the fused         *)
(* ordering (k = top_k or 20): min(k, number of distinct chunk ids) of    *)
(* them, each returned by a channel, and no chunk that was cut has a      *)
(* higher fused score than one that was kept.                              *)
C5_CutToK ==
  SearchReturned =>
    /\ Len(sorted_results) = Min(DefaultK(call.top_k), Cardinality(ChannelIds))
    /\ Range(Ids(sorted_results)) \subseteq ChannelIds
    /\ \A i \in 1..Len(results), j \in 1..Len(sorted_results) :
         results[i].chunk_id \notin Range(Ids(sorted_results))
           => RLeq(results[i].fused_score, sorted_results[j].fused_score)

C5_Witness ==
  /\ SearchReturned
  /\ Cardinality(ChannelIds) > DefaultK(call.top_k)
  /\ Len(sorted_results) = DefaultK(call.top_k)

----------------------------------------------------------------------------
(* Vector channel: search_similar_chunks on a drawn store and filters *)

Statuses == {"pending", "processing", "completed", "failed"}
VectorSims == {65, 70, 71}

InitVector ==
  /\ \E st \in Statuses, cl \in {<<"finance", "hr">>, <<"policy", "hr">>, <<"finance", "ops">>} :
       documents = [d \in DocIds |->
                      IF d = 1 THEN [status |-> st, doc_type |-> cl[1], department |-> cl[2]]
                      ELSE [status |-> "completed", doc_type |-> "policy", department |-> "ops"]]
  /\ \E sims \in [ChunkIds -> VectorSims] :
       chunkTable = [c \in ChunkIds |-> [PlainChunk(c) EXCEPT !.sim = sims[c]]]
  /\ \E k \in TopKs, dt \in {"", "finance"}, dep \in {"", "hr"}, ids \in {{}, {1}} :
       req = [NoReq EXCEPT !.top_k = k, !.top_k_is_none = (k = None),
                           !.doc_type = dt, !.department = dep,
                           !.document_ids = ids]
  /\ settings = DefaultSettings
  /\ call = NoCall
  /\ processed_query = NoQuery
  /\ pc = "vector_call"
  /\ semantic_results = <<>>
  /\ keyword_results = <<>>
  /\ results = <<>>
  /\ sorted_results = <<>>
  /\ search_results = <<>>
  /\ reranked_results = <<>>
  /\ final_context = NoContext
  /\ exception = NoException
  /\ io_trace = <<>>
  /\ other = NoFrame
  /\ chat = NoChat

NextVector == CallVectorSearch

SpecVector == InitVector /\ [][NextVector]_vars

VectorReturned == pc = "vector_return"
Sim(c) == chunkTable[c].sim
ReqEligible ==
  {c \in ChunkIds :
     /\ documents[DocOf(c)].status = "completed"
     /\ req.doc_type # "" => documents[DocOf(c)].doc_type = req.doc_type
     /\ req.department # "" => documents[DocOf(c)].department = req.department
     /\ req.document_ids # {} => DocOf(c) \in req.document_ids}
(* c is among the k most similar eligible chunks however ties are broken *)
SurelyTopK(c) ==
  Cardinality({o \in ReqEligible \ {c} : Sim(o) >= Sim(c)}) < DefaultK(req.top_k)
MaybeTopK(c) ==
  Cardinality({o \in ReqEligible : Sim(o) > Sim(c)}) < DefaultK(req.top_k)
Returned == Range(Ids(semantic_results))

(* C7: search_similar_chunks returns at most k chunks in non-increasing   *)
(* similarity order, and a chunk among the k most similar eligible chunks *)
(* is returned iff its similarity is >= the threshold 0.7: similarity     *)
(* 0.65 is excluded, 0.71 is included.                                     *)
C7_ThresholdTopK ==
  VectorReturned =>
    /\ Len(semantic_results) <= DefaultK(req.top_k)
    /\ \A i \in 1..(Len(semantic_results) - 1) :
         semantic_results[i].similarity_score >= semantic_results[i + 1].similarity_score
    /\ \A i, j \in 1..Len(semantic_results) :
         i # j => semantic_results[i].chunk_id # semantic_results[j].chunk_id
    /\ \A i \in 1..Len(semantic_results) :
         semantic_results[i].similarity_score = Sim(semantic_results[i].chunk_id)
    /\ \A c \in Returned : c \in ReqEligible /\ MaybeTopK(c) /\ Sim(c) >= 70
    /\ \A c \in ReqEligible : SurelyTopK(c) => (c \in Returned <=> Sim(c) >= 70)
    /\ \A c \in ReqEligible : Sim(c) = 65 => c \notin Returned
    /\ \A c \in ReqEligible : SurelyTopK(c) /\ Sim(c) = 71 => c \in Returned

C7_Witness ==
  /\ VectorReturned
  /\ \E a, b, c \in ReqEligible :
       /\ Sim(a) = 65 /\ SurelyTopK(a) /\ a \notin Returned
       /\ Sim(b) = 71 /\ b \in Returned
       /\ Sim(c) = 70 /\ c \in Returned

(* C8: every chunk the vector channel returns belongs to a document whose *)
(* status is 'completed' and which satisfies every supplied filter        *)
(* (doc_type, department, document-id set); chunks of pending, processing *)
(* or failed documents are never returned.                                 *)
C8_CompletedAndFiltered ==
  VectorReturned =>
    \A i \in 1..Len(semantic_results) :
      LET e == semantic_results[i]
          d == documents[chunkTable[e.chunk_id].document_id]
      IN /\ e.document_id = chunkTable[e.chunk_id].document_id
         /\ d.status = "completed"
         /\ d.status \notin {"pending", "processing", "failed"}
         /\ req.doc_type # "" => d.doc_type = req.doc_type
         /\ req.department # "" => d.department = req.department
         /\ req.document_ids # {} => e.document_id \in req.document_ids

C8_Witness ==
  /\ VectorReturned
  /\ semantic_results # <<>>
  /\ documents[1].status = "processing"
  /\ req.doc_type = "" /\ req.department = "" /\ req.document_ids = {}
  /\ \E c \in ChunkIds : DocOf(c) = 1 /\ Sim(c) = 71

C8_WitnessFiltered ==
  /\ VectorReturned
  /\ semantic_results # <<>>
  /\ documents[1].status = "completed"
  /\ req.doc_type = "finance" /\ documents[1].doc_type = "finance"
  /\ req.department = "hr" /\ documents[1].department = "hr"
  /\ req.document_ids = {1}

----------------------------------------------------------------------------
(* Context assembly on drawn candidate lists, budgets and query classes *)

CandTypes == {"text", "table"}
CandTokens == {-1, 1, 2}
CandScores == {[key |-> "rerank_score", v |-> [n |-> 9, d |-> 10]],
               [key |-> "fused_score", v |-> [n |-> 7, d |-> 610]]}
CandKinds ==
  {k \in [type : CandTypes, tokens : CandTokens, score : CandScores] :
     /\ (k.type = "text" /\ k.score.key = "fused_score") => k.tokens = 1
     /\ (k.type = "table" /\ k.score.key = "rerank_score") => k.tokens = 2}

Candidate(id, kind) ==
  [BlankChunk EXCEPT
     !.keys = {"chunk_id", "document_id", "content", "chunk_type", "page_numbers",
               "section_title", "metadata", kind.score.key}
              \cup (IF kind.tokens >= 0 THEN {"token_count"} ELSE {}),
     !.chunk_id = id, !.document_id = 1, !.document_title = 1,
     !.chunk_type = kind.type, !.page_numbers = <<1>>, !.section_title = "s",
     !.token_count = IF kind.tokens >= 0 THEN kind.tokens ELSE 0,
     !.rerank_score = IF kind.score.key = "rerank_score" THEN kind.score.v ELSE RZero,
     !.fused_score = IF kind.score.key = "fused_score" THEN kind.score.v ELSE RZero]

CandLists ==
  UNION {{[i \in 1..n |-> Candidate(i, kinds[i])] : kinds \in [1..n -> CandKinds]} :
           n \in 0..MaxCand}

(* four text chunks with the high score followed by a table with the low one *)
FifthTableList ==
  [i \in 1..5 |->
     Candidate(i, [type |-> IF i = 5 THEN "table" ELSE "text", tokens |-> 1,
                   score |-> IF i = 5 THEN [key |-> "fused_score", v |-> [n |-> 7, d |-> 610]]
                             ELSE [key |-> "rerank_score", v |-> [n |-> 9, d |-> 10]]])]

QueryClasses ==
  {[NoQuery EXCEPT !.intent = "general", !.entities = {}],
   [NoQuery EXCEPT !.intent = "general", !.entities = {"amount"}],
   [NoQuery EXCEPT !.intent = "financial", !.entities = {}],
   [NoQuery EXCEPT !.intent = "analytical", !.entities = {"date"}]}

InitAssemble ==
  /\ documents = [d \in DocIds |-> PlainDocument]
  /\ chunkTable = [c \in ChunkIds |-> PlainChunk(c)]
  /\ \E b \in 0..MaxBudget : settings = [DefaultSettings EXCEPT !.max_context_tokens = b]
  /\ processed_query \in QueryClasses
  /\ reranked_results \in CandLists \cup {FifthTableList}
  /\ req = NoReq
  /\ call = NoCall
  /\ pc = "assemble"
  /\ semantic_results = <<>>
  /\ keyword_results = <<>>
  /\ results = <<>>
  /\ sorted_results = <<>>
  /\ search_results = <<>>
  /\ final_context = NoContext
  /\ exception = NoException
  /\ io_trace = <<>>
  /\ other = NoFrame
  /\ chat = NoChat

NextAssemble == AssembleContext

SpecAssemble == InitAssemble /\ [][NextAssemble]_vars

Assembled == pc = "done"
PriorityOrder == prioritize_chunks(reranked_results)
Tokens(list) == SumSeq([i \in 1..Len(list) |-> ChunkTokens(list[i])])
IsTable(chunk) == chunk.chunk_type = "table"

(* C1: final_chunks is the longest prefix of the priority-ordered         *)
(* candidate list whose summed token counts is <= the budget B: the total *)
(* never exceeds B, the packed chunks keep the priority order, and if a   *)
(* candidate was left out, adding the first one left out would exceed B.  *)
C1_TokenBudget ==
  Assembled =>
    LET F == final_context.chunks
        P == PriorityOrder
        B == settings.max_context_tokens
    IN /\ Len(F) <= Len(P)
       /\ F = SubSeq(P, 1, Len(F))
       /\ final_context.total_tokens = Tokens(F)
       /\ final_context.total_tokens <= B
       /\ Len(F) < Len(P) => Tokens(F) + ChunkTokens(P[Len(F) + 1]) > B
       /\ \A n \in 0..Len(P) : Tokens(SubSeq(P, 1, n)) <= B => n <= Len(F)
       /\ \A i, j \in 1..Len(F) :
            i < j => ~KeyLess(get_priority(F[i]), get_priority(F[j]))

C1_Witness ==
  /\ Assembled
  /\ Len(final_context.chunks) >= 2
  /\ Len(final_context.chunks) < Len(reranked_results)
  /\ final_context.total_tokens < settings.max_context_tokens
  /\ Ids(final_context.chunks) # Ids(SubSeq(reranked_results, 1, Len(final_context.chunks)))

(* C10: when the intent is financial or analytical, or the query has a    *)
(* monetary (amount) entity, every table chunk precedes every non-table   *)
(* chunk in the assembler's priority order, whatever the incoming ranks   *)
(* or scores: a table ranked 5th outranks all non-table chunks.           *)
C10_TableBoost ==
  (Assembled /\ (processed_query.intent \in {"financial", "analytical"}
                   \/ "amount" \in processed_query.entities)) =>
    LET F == final_context.chunks
        P == PriorityOrder
    IN /\ \A i, j \in 1..Len(P) : IsTable(P[i]) /\ ~IsTable(P[j]) => i < j
       /\ \A i, j \in 1..Len(F) : IsTable(F[i]) /\ ~IsTable(F[j]) => i < j
       /\ \A i \in 1..Len(reranked_results) :
            (IsTable(reranked_results[i]) /\ \E j \in 1..Len(F) : ~IsTable(F[j]))
              => reranked_results[i].chunk_id \in Range(Ids(F))

C10_Witness ==
  /\ Assembled
  /\ processed_query.intent = "financial"
  /\ Ids(reranked_results) = <<1, 2, 3, 4, 5>>
  /\ IsTable(reranked_results[5])
  /\ \A i \in 1..4 : ~IsTable(reranked_results[i])
  /\ Len(final_context.chunks) >= 2
  /\ final_context.chunks[1].chunk_id = 5

C10_WitnessEntity ==
  /\ Assembled
  /\ processed_query.intent = "general"
  /\ "amount" \in processed_query.entities
  /\ Len(final_context.chunks) >= 2
  /\ IsTable(final_context.chunks[1]) /\ ~IsTable(final_context.chunks[2])
  /\ final_context.chunks[1].chunk_id > final_context.chunks[2].chunk_id

----------------------------------------------------------------------------
(* Context Expander *)

(* vector_search.py:179-196 *)
NeighborDict(c, target) ==
  LET ch == chunkTable[c] IN
  [BlankChunk EXCEPT
     !.keys = {"chunk_id", "document_id", "content", "chunk_type", "chunk_index",
               "page_numbers", "section_title", "is_target", "metadata"},
     !.chunk_id = c, !.document_id = ch.document_id,
     !.chunk_type = ch.chunk_type, !.chunk_index = ch.chunk_index,
     !.page_numbers = ch.page_numbers, !.section_title = ch.section_title,
     !.is_target = (c = target),
     !.document_title = chunkTable[target].document_id]

RECURSIVE ByIndexDescending(_, _, _)
ByIndexDescending(doc, lo, hi) ==
  IF lo > hi THEN <<>>
  ELSE LET here == {c \in DOMAIN chunkTable : chunkTable[c].document_id = doc
                                              /\ chunkTable[c].chunk_index = hi}
       IN (IF here = {} THEN <<>> ELSE <<CHOOSE c \in here : TRUE>>)
            \o ByIndexDescending(doc, lo, hi - 1)

(* chunks of the target's document with index in [lo, hi], by chunk_index *)
RECURSIVE ByIndex(_, _, _)
ByIndex(doc, lo, hi) ==
  IF lo > hi THEN <<>>
  ELSE LET here == {c \in DOMAIN chunkTable : chunkTable[c].document_id = doc
                                      /\ chunkTable[c].chunk_index = lo}
       IN (IF here = {} THEN <<>> ELSE <<CHOOSE c \in here : TRUE>>)
            \o ByIndex(doc, lo + 1, hi)

(* VectorSearchService.get_chunk_neighbors *)
get_chunk_neighbors(chunk_id, n_before, n_after) ==
  IF chunk_id \notin DOMAIN chunkTable THEN <<>>
  ELSE LET t == chunkTable[chunk_id]
           ns == ByIndex(t.document_id, t.chunk_index - n_before,
                         t.chunk_index + n_after)
       IN [i \in 1..Len(ns) |-> NeighborDict(ns[i], chunk_id)]

(* hybrid_search.py:203-220 for one neighbor *)
AddNeighbor(st, neighbor, result) ==
  IF neighbor.chunk_id \in st.seen THEN st
  ELSE LET marked ==
             [neighbor EXCEPT
                !.keys = @ \cup {"is_expanded_context", "parent_chunk_id"},
                !.is_expanded_context = ~neighbor.is_target,
                !.parent_chunk_id = IF ~neighbor.is_target THEN result.chunk_id ELSE None]
           scored ==
             IF neighbor.is_target
             THEN [marked EXCEPT
                     !.keys = @ \cup {"fused_score", "semantic_score", "keyword_score",
                                      "retrieval_method"},
                     !.fused_score = result.fused_score,
                     !.semantic_score = result.semantic_score,
                     !.keyword_score = result.keyword_score,
                     !.retrieval_method = result.retrieval_method]
             ELSE marked
       IN [expanded |-> Append(st.expanded, scored),
           seen |-> st.seen \cup {neighbor.chunk_id}]

RECURSIVE AddNeighbors(_, _, _, _)
AddNeighbors(st, neighbors, i, result) ==
  IF i > Len(neighbors) THEN st
  ELSE AddNeighbors(AddNeighbor(st, neighbors[i], result), neighbors, i + 1, result)

RECURSIVE ExpandTopResultsStopAtMissing(_, _, _)
ExpandTopResultsStopAtMissing(st, initial, i) ==
  IF i > Min(ExpandTop, Len(initial)) THEN st
  ELSE IF get_chunk_neighbors(initial[i].chunk_id, 1, 1) = <<>> THEN st
  ELSE ExpandTopResultsStopAtMissing(
         AddNeighbors(st, get_chunk_neighbors(initial[i].chunk_id, 1, 1), 1, initial[i]),
         initial, i + 1)

(* hybrid_search.py:191-220 from the i-th of the top results on *)
RECURSIVE ExpandTopResults(_, _, _)
ExpandTopResults(st, initial, i) ==
  IF i > Min(ExpandTop, Len(initial)) THEN st
  ELSE ExpandTopResults(
         AddNeighbors(st, get_chunk_neighbors(initial[i].chunk_id, 1, 1), 1, initial[i]),
         initial, i + 1)

RECURSIVE AddRemainingNoDedup(_, _, _)
AddRemainingNoDedup(st, initial, i) ==
  IF i > Len(initial) THEN st
  ELSE AddRemainingNoDedup(
         [expanded |-> Append(st.expanded,
                              [initial[i] EXCEPT !.keys = @ \cup {"is_expanded_context"},
                                                 !.is_expanded_context = FALSE]),
          seen |-> st.seen \cup {initial[i].chunk_id}],
         initial, i + 1)

(* hybrid_search.py:223-227 from the i-th result on *)
RECURSIVE AddRemaining(_, _, _)
AddRemaining(st, initial, i) ==
  IF i > Len(initial) THEN st
  ELSE AddRemaining(
         IF initial[i].chunk_id \in st.seen THEN st
         ELSE [expanded |-> Append(st.expanded,
                                   [initial[i] EXCEPT !.keys = @ \cup {"is_expanded_context"},
                                                      !.is_expanded_context = FALSE]),
               seen |-> st.seen \cup {initial[i].chunk_id}],
         initial, i + 1)

expand_context(initial) ==
  AddRemaining(ExpandTopResults([expanded |-> <<>>, seen |-> {}], initial, 1),
               initial, ExpandTop + 1).expanded

----------------------------------------------------------------------------
(* Reranker Adapter (reranker.py): relevance scores from the provider,     *)
(* candidates reordered by them and capped to top_n                        *)

RerankScorings ==
  {[c \in ChunkIds |-> [n |-> c, d |-> 10 + NChunks]],
   [c \in ChunkIds |-> [n |-> NChunks + 1 - c, d |-> 10 + NChunks]]}

InsertByRerank(sorted, x) ==
  LET after == {i \in 1..Len(sorted) : RLess(sorted[i].rerank_score, x.rerank_score)}
      p == IF after = {} THEN Len(sorted) + 1
           ELSE CHOOSE i \in after : \A j \in after : i <= j
  IN SubSeq(sorted, 1, p - 1) \o <<x>> \o SubSeq(sorted, p, Len(sorted))

RECURSIVE SortByRerank(_)
SortByRerank(s) ==
  IF s = <<>> THEN <<>>
  ELSE InsertByRerank(SortByRerank(SubSeq(s, 1, Len(s) - 1)), s[Len(s)])

rerank(chunks, top_n, scoring) ==
  Prefix(SortByRerank([i \in 1..Len(chunks) |->
                         [chunks[i] EXCEPT !.keys = @ \cup {"rerank_score"},
                                           !.rerank_score = scoring[chunks[i].chunk_id]]]),
         top_n)

(* the provider failed on every retry: rerank is skipped for this call, *)
(* the candidates stay in their order, capped to top_n                   *)
rerank_fallback(chunks, top_n) == Prefix(chunks, top_n)

----------------------------------------------------------------------------
(* RetrievalPipeline.retrieve *)

rerank_enabled == TRUE

UseKeyword == ~processed_query.semantic_only
UseSemantic == processed_query.semantic_only \/ ~processed_query.keyword_only

(* pipeline.py:127 *)
search_strategy ==
  IF UseSemantic /\ UseKeyword THEN "hybrid"
  ELSE IF UseSemantic THEN "semantic" ELSE "keyword"

Strategies == {[semantic_only |-> TRUE, keyword_only |-> FALSE],
               [semantic_only |-> FALSE, keyword_only |-> TRUE],
               [semantic_only |-> FALSE, keyword_only |-> FALSE]}

(* pipeline.py:74-90: the arguments retrieve passes to the search *)
RetrieveCall(pq) ==
  IF req.include_context
  THEN [top_k |-> DefaultK(req.top_k), use_semantic |-> TRUE, use_keyword |-> TRUE,
        doc_type |-> "", department |-> ""]
  ELSE [top_k |-> DefaultK(req.top_k),
        use_semantic |-> pq.semantic_only \/ ~pq.keyword_only,
        use_keyword |-> ~pq.semantic_only,
        doc_type |-> req.doc_type, department |-> req.department]

(* pipeline.py:48-90: query processing, strategy, start of the search *)
RetrieveStart ==
  /\ pc = "retrieve"
  /\ \E q \in QueryClasses, st \in Strategies :
       LET pq == [q EXCEPT !.semantic_only = st.semantic_only,
                           !.keyword_only = st.keyword_only]
       IN /\ processed_query' = pq
          /\ call' = RetrieveCall(pq)
  /\ pc' = "search_semantic"
  /\ UNCHANGED <<documents, chunkTable, settings, req, semantic_results,
                 keyword_results, results, sorted_results, search_results,
                 reranked_results, final_context,
                 exception, io_trace, other>>
  /\ UNCHANGED chat

(* hybrid_search.py:184-231: search_with_context_expansion after search() *)
ExpandContext ==
  /\ pc = "search_return"
  /\ req.include_context
  /\ search_results' = expand_context(sorted_results)
  /\ io_trace' = io_trace \o [i \in 1..Min(ExpandTop, Len(sorted_results)) |->
                                Issued("get_chunk_neighbors")]
  /\ pc' = "rerank"
  /\ UNCHANGED <<documents, chunkTable, settings, req, processed_query, call,
                 semantic_results, keyword_results, results, sorted_results,
                 reranked_results, final_context, exception, other>>
  /\ UNCHANGED chat

(* pipeline.py:82-92: the plain search() result *)
SearchOnly ==
  /\ pc = "search_return"
  /\ ~req.include_context
  /\ search_results' = sorted_results
  /\ pc' = "rerank"
  /\ UNCHANGED <<documents, chunkTable, settings, req, processed_query, call,
                 semantic_results, keyword_results, results, sorted_results,
                 reranked_results, final_context,
                 exception, io_trace, other>>
  /\ UNCHANGED chat

TopN == IF req.top_k = None THEN rerank_top_k ELSE req.top_k

ShouldRerankAlways(list) == rerank_enabled

(* pipeline.py:95 *)
ShouldRerank(list) == rerank_enabled /\ Len(list) > 1

(* pipeline.py:94-101 *)
Rerank ==
  /\ pc = "rerank"
  /\ ShouldRerank(search_results)
  /\ \E scoring \in RerankScorings :
       reranked_results' = rerank(search_results, TopN, scoring)
  /\ io_trace' = Append(io_trace, Issued("rerank"))
  /\ pc' = "assemble"
  /\ UNCHANGED <<documents, chunkTable, settings, req, processed_query, call,
                 semantic_results, keyword_results, results, sorted_results,
                 search_results, final_context, exception, other>>
  /\ UNCHANGED chat

(* pipeline.py:97-101 when the rerank provider fails on every retry *)
RerankFails ==
  /\ pc = "rerank"
  /\ ShouldRerank(search_results)
  /\ reranked_results' = rerank_fallback(search_results, TopN)
  /\ io_trace' = Append(io_trace, Failed("rerank"))
  /\ pc' = "assemble"
  /\ UNCHANGED <<documents, chunkTable, settings, req, processed_query, call,
                 semantic_results, keyword_results, results, sorted_results,
                 search_results, final_context, exception, other>>
  /\ UNCHANGED chat

(* pipeline.py:106-108 *)
SkipRerank ==
  /\ pc = "rerank"
  /\ ~ShouldRerank(search_results)
  /\ reranked_results' = Prefix(search_results, TopN)
  /\ pc' = "assemble"
  /\ UNCHANGED <<documents, chunkTable, settings, req, processed_query, call,
                 semantic_results, keyword_results, results, sorted_results,
                 search_results, final_context,
                 exception, io_trace, other>>
  /\ UNCHANGED chat

PipelineDocument(d) ==
  IF d = 1 THEN [status |-> "completed", doc_type |-> "finance", department |-> "hr"]
  ELSE [status |-> "completed", doc_type |-> "policy", department |-> "ops"]

PipelineChunk(c, similar) ==
  [document_id |-> DocOf(c), chunk_index |-> IndexOf(c),
   chunk_type |-> IF c % 4 = 0 THEN "table" ELSE "text",
   token_count |-> 1 + (c % 2), page_numbers |-> <<1>>, section_title |-> "s",
   sim |-> IF similar THEN 80 + c ELSE 65,
   lexical |-> c % 4 \in {2, 3}]

Init ==
  /\ documents = [d \in DocIds |-> PipelineDocument(d)]
  /\ \E similar \in [ChunkIds -> BOOLEAN] :
       chunkTable = [c \in ChunkIds |-> PipelineChunk(c, similar[c])]
  /\ \E k \in TopKs, dt \in {"", "finance"}, dep \in {"", "hr"}, ic \in BOOLEAN :
       req = [NoReq EXCEPT !.top_k = k, !.top_k_is_none = (k = None),
                           !.doc_type = dt, !.department = dep,
                           !.include_context = ic]
  /\ settings = DefaultSettings
  /\ call = NoCall
  /\ processed_query = NoQuery
  /\ pc = "retrieve"
  /\ semantic_results = <<>>
  /\ keyword_results = <<>>
  /\ results = <<>>
  /\ sorted_results = <<>>
  /\ search_results = <<>>
  /\ reranked_results = <<>>
  /\ final_context = NoContext
  /\ exception = NoException
  /\ io_trace = <<>>
  /\ other = NoFrame
  /\ chat = NoChat

Next ==
  \/ RetrieveStart
  \/ SearchSemantic
  \/ SearchKeyword
  \/ ExpandContext
  \/ SearchOnly
  \/ Rerank
  \/ RerankFails
  \/ SkipRerank
  \/ AssembleContext

Spec == Init /\ [][Next]_vars

DocumentOf(chunk) == documents[chunkTable[chunk.chunk_id].document_id]

(* C9: when retrieve is called with a doc_type and/or department filter,  *)
(* every chunk of the returned result belongs to a document matching      *)
(* those filters, with include_context false and with it true.            *)
C9_FiltersHonoured ==
  Assembled =>
    \A i \in 1..Len(final_context.chunks) :
      /\ req.doc_type # "" => DocumentOf(final_context.chunks[i]).doc_type = req.doc_type
      /\ req.department # "" => DocumentOf(final_context.chunks[i]).department = req.department

(* the same restricted to calls without context expansion *)
FiltersHonouredUnexpanded == ~req.include_context => C9_FiltersHonoured

----------------------------------------------------------------------------
(* RetrievalPipeline.retrieve_from_document *)

(* a document id that is not the text of a UUID; UUID(document_id) raises *)
MalformedId == -1
UnknownId == 3
DocumentIdArgs == DocIds \cup {UnknownId, MalformedId}

(* pipeline.py:278-287: query processing and the query embedding *)
DocRetrieveStart ==
  /\ pc = "doc_retrieve"
  /\ processed_query' \in QueryClasses
  /\ io_trace' = Append(io_trace, Issued("embed_query"))
  /\ pc' = "doc_search"
  /\ UNCHANGED <<documents, chunkTable, settings, req, call, semantic_results,
                 keyword_results, results, sorted_results, search_results,
                 reranked_results, final_context, exception, other>>
  /\ UNCHANGED chat

(* pipeline.py:289-294 *)
DocSearch ==
  /\ pc = "doc_search"
  /\ req.document_id # MalformedId
  /\ search_results' \in search_by_document(req.document_id, DefaultK(req.top_k))
  /\ io_trace' = Append(io_trace, Issued("search_similar_chunks"))
  /\ pc' = "doc_rerank"
  /\ UNCHANGED <<documents, chunkTable, settings, req, processed_query, call,
                 semantic_results, keyword_results, results, sorted_results,
                 reranked_results, final_context, exception, other>>
  /\ UNCHANGED chat

(* pipeline.py:291: UUID(document_id) raises ValueError *)
DocSearchRaises ==
  /\ pc = "doc_search"
  /\ req.document_id = MalformedId
  /\ exception' = Raise("ValueError", "UUID")
  /\ pc' = "raised"
  /\ UNCHANGED <<documents, chunkTable, settings, req, processed_query, call,
                 semantic_results, keyword_results, results, sorted_results,
                 search_results, reranked_results, final_context, io_trace, other>>
  /\ UNCHANGED chat

(* pipeline.py:297 *)
ShouldRerankDocument(list) == rerank_enabled /\ list # <<>>

(* pipeline.py:297-302 *)
DocRerank ==
  /\ pc = "doc_rerank"
  /\ ShouldRerankDocument(search_results)
  /\ \E scoring \in RerankScorings :
       reranked_results' = rerank(search_results, TopN, scoring)
  /\ io_trace' = Append(io_trace, Issued("rerank"))
  /\ pc' = "assemble"
  /\ UNCHANGED <<documents, chunkTable, settings, req, processed_query, call,
                 semantic_results, keyword_results, results, sorted_results,
                 search_results, final_context, exception, other>>
  /\ UNCHANGED chat

(* pipeline.py:298-302 when the rerank provider fails on every retry *)
DocRerankFails ==
  /\ pc = "doc_rerank"
  /\ ShouldRerankDocument(search_results)
  /\ reranked_results' = rerank_fallback(search_results, TopN)
  /\ io_trace' = Append(io_trace, Failed("rerank"))
  /\ pc' = "assemble"
  /\ UNCHANGED <<documents, chunkTable, settings, req, processed_query, call,
                 semantic_results, keyword_results, results, sorted_results,
                 search_results, final_context, exception, other>>
  /\ UNCHANGED chat

(* pipeline.py:303-304 *)
DocSkipRerank ==
  /\ pc = "doc_rerank"
  /\ ~ShouldRerankDocument(search_results)
  /\ reranked_results' = search_results
  /\ pc' = "assemble"
  /\ UNCHANGED <<documents, chunkTable, settings, req, processed_query, call,
                 semantic_results, keyword_results, results, sorted_results,
                 search_results, final_context, exception, io_trace, other>>
  /\ UNCHANGED chat

InitDocument ==
  /\ \E st \in Statuses :
       documents = [d \in DocIds |-> [PipelineDocument(d) EXCEPT
                                        !.status = IF d = 1 THEN st ELSE @]]
  /\ \E similar \in [ChunkIds -> BOOLEAN] :
       chunkTable = [c \in ChunkIds |-> PipelineChunk(c, similar[c])]
  /\ \E id \in DocumentIdArgs, k \in TopKs, none \in BOOLEAN :
       /\ none => k = None
       /\ req = [NoReq EXCEPT !.top_k = k, !.top_k_is_none = none, !.document_id = id]
  /\ settings = DefaultSettings
  /\ call = NoCall
  /\ processed_query = NoQuery
  /\ pc = "doc_retrieve"
  /\ semantic_results = <<>>
  /\ keyword_results = <<>>
  /\ results = <<>>
  /\ sorted_results = <<>>
  /\ search_results = <<>>
  /\ reranked_results = <<>>
  /\ final_context = NoContext
  /\ exception = NoException
  /\ io_trace = <<>>
  /\ other = NoFrame
  /\ chat = NoChat

NextDocument ==
  \/ DocRetrieveStart
  \/ DocSearch
  \/ DocSearchRaises
  \/ DocRerank
  \/ DocRerankFails
  \/ DocSkipRerank
  \/ AssembleContext

SpecDocument == InitDocument /\ [][NextDocument]_vars

(* Invalid input *)

InvalidInput ==
  \/ ~req.top_k_is_none /\ req.top_k <= 0
  \/ req.document_id = MalformedId

(* C14: a retrieval call with a zero or negative result cap or with a     *)
(* malformed document id is rejected with an error before any embedding,  *)
(* store or rerank call is issued; the cap is not replaced by a default   *)
(* and the call is not processed.                                          *)
C14_InvalidRejected ==
  InvalidInput =>
    /\ io_trace = <<>>
    /\ pc \in {"doc_retrieve", "raised"}
    /\ final_context = NoContext

(* Single-document retrieval *)

InDocument(chunk) ==
  /\ chunk.document_id = req.document_id
  /\ chunkTable[chunk.chunk_id].document_id = req.document_id
  /\ req.document_id \in DocIds
  /\ documents[req.document_id].status = "completed"

(* C17: every chunk returned by retrieve_from_document(query,             *)
(* document_id) belongs to the document with that id, and that document   *)
(* is 'completed'; no chunk of another document is in the result.         *)
C17_OnlyThatDocument ==
  /\ \A i \in 1..Len(search_results) : InDocument(search_results[i])
  /\ \A i \in 1..Len(reranked_results) : InDocument(reranked_results[i])
  /\ \A i \in 1..Len(final_context.chunks) : InDocument(final_context.chunks[i])
  /\ \A i \in 1..Len(final_context.sources) :
       chunkTable[final_context.sources[i].chunk_id].document_id = req.document_id

C17_Witness ==
  /\ pc = "done"
  /\ final_context.chunks # <<>>
  /\ req.document_id = 1
  /\ documents[2].status = "completed"
  /\ \E c \in ChunkIds :
       /\ chunkTable[c].document_id = 2
       /\ \A o \in ChunkIds : chunkTable[c].sim >= chunkTable[o].sim

----------------------------------------------------------------------------
(* Degraded rerank *)

RetrieveEnded == pc \in {"done", "raised"}
IsRerankCall(io) == io.call = "rerank"
rerank_trace == SelectSeq(io_trace, IsRerankCall)
RerankFailed == \E i \in 1..Len(rerank_trace) : ~rerank_trace[i].ok
PreRerankPos(chunk) == PosOf(Ids(search_results), chunk.chunk_id)
BoostedTable(chunk) ==
  /\ chunk.chunk_type = "table"
  /\ (processed_query.intent \in {"financial", "analytical"}
        \/ "amount" \in processed_query.entities)
FusedOrZero(chunk) == IF Has(chunk, "fused_score") THEN chunk.fused_score ELSE RZero

----------------------------------------------------------------------------
(* Empty result *)

BothChannelsEmpty ==
  /\ pc \in {"search_return", "rerank", "assemble", "done", "raised"}
  /\ semantic_results = <<>>
  /\ keyword_results = <<>>

(* C12: when neither search channel returns any chunk, retrieve completes *)
(* without raising and its result has an empty chunk list, empty context  *)
(* text, total_tokens = 0 and an empty source list; the reranker is not   *)
(* invoked.                                                                *)
C12_EmptyResult ==
  BothChannelsEmpty =>
    /\ pc # "raised"
    /\ exception = NoException
    /\ rerank_trace = <<>>
    /\ search_results = <<>>
    /\ pc \in {"assemble", "done"} => reranked_results = <<>>
    /\ pc = "done" =>
         /\ final_context.chunks = <<>>
         /\ final_context.context_text = <<>>
         /\ final_context.total_tokens = 0
         /\ final_context.sources = <<>>

C12_Witness ==
  /\ pc = "done"
  /\ BothChannelsEmpty
  /\ call.use_semantic /\ call.use_keyword
  /\ \E c \in ChunkIds : chunkTable[c].lexical
  /\ final_context.chunks = <<>>

----------------------------------------------------------------------------
(* Source list *)

SourceTuple(chunk) ==
  <<chunk.document_title,
    IF Has(chunk, "page_numbers") THEN chunk.page_numbers[1] ELSE None,
    IF Has(chunk, "section_title") THEN chunk.section_title ELSE None,
    chunk.chunk_id>>
EntryTuple(e) == <<e.document, e.page, e.section, e.chunk_id>>
FirstSeen(t) ==
  CHOOSE i \in 1..Len(final_context.chunks) :
    /\ SourceTuple(final_context.chunks[i]) = t
    /\ \A j \in 1..(i - 1) : SourceTuple(final_context.chunks[j]) # t

(* C13: the source list has exactly one entry per distinct {document,     *)
(* page, section, chunk_id} tuple among the packed chunks, in the order   *)
(* in which each tuple is first seen in final_chunks, and no entry for a  *)
(* chunk that was not packed.                                              *)
C13_SourceList ==
  Assembled =>
    LET F == final_context.chunks
        S == final_context.sources
    IN /\ \A a \in 1..Len(S) : \E i \in 1..Len(F) : EntryTuple(S[a]) = SourceTuple(F[i])
       /\ \A i \in 1..Len(F) :
            Cardinality({a \in 1..Len(S) : EntryTuple(S[a]) = SourceTuple(F[i])}) = 1
       /\ \A a, b \in 1..Len(S) :
            a < b => FirstSeen(EntryTuple(S[a])) < FirstSeen(EntryTuple(S[b]))
       /\ \A i \in 1..Len(reranked_results) :
            (\A j \in 1..Len(F) : F[j].chunk_id # reranked_results[i].chunk_id)
              => \A a \in 1..Len(S) : S[a].chunk_id # reranked_results[i].chunk_id

C13_Witness ==
  /\ Assembled
  /\ Len(final_context.sources) >= 2
  /\ final_context.sources[1].chunk_id > final_context.sources[2].chunk_id
  /\ Len(final_context.chunks) < Len(reranked_results)
  /\ Len(final_context.sources) = Len(final_context.chunks)

----------------------------------------------------------------------------
(* Failing providers and cancellation *)

(* hybrid_search.py:61-69: embed_query (after its retries) or the vector   *)
(* query raises; search(), search_with_context_expansion() and retrieve()  *)
(* have no handler, so the exception reaches the caller of retrieve        *)
SearchSemanticFails ==
  /\ pc = "search_semantic"
  /\ call.use_semantic
  /\ \/ /\ io_trace' = Append(io_trace, Failed("embed_query"))
        /\ exception' = Raise("Exception", "embed_query")
     \/ /\ io_trace' = io_trace \o <<Issued("embed_query"),
                                      Failed("search_similar_chunks")>>
        /\ exception' = Raise("Exception", "search_similar_chunks")
  /\ pc' = "raised"
  /\ UNCHANGED <<documents, chunkTable, settings, req, processed_query, call,
                 semantic_results, keyword_results, results, sorted_results,
                 search_results, reranked_results, final_context, other>>
  /\ UNCHANGED chat

(* hybrid_search.py:191-200: the n-th neighbor lookup raises; neither      *)
(* search_with_context_expansion() nor retrieve() has a handler            *)
ExpandContextFails ==
  /\ pc = "search_return"
  /\ req.include_context
  /\ \E n \in 1..Min(ExpandTop, Len(sorted_results)) :
       io_trace' = io_trace \o [i \in 1..n |->
                                 IF i < n THEN Issued("get_chunk_neighbors")
                                 ELSE Failed("get_chunk_neighbors")]
  /\ exception' = Raise("Exception", "get_chunk_neighbors")
  /\ pc' = "raised"
  /\ UNCHANGED <<documents, chunkTable, settings, req, processed_query, call,
                 semantic_results, keyword_results, results, sorted_results,
                 search_results, reranked_results, final_context, other>>
  /\ UNCHANGED chat

(* the call is suspended in an await of an external call *)
AtAwait ==
  \/ pc = "search_semantic" /\ call.use_semantic
  \/ pc = "search_keyword" /\ call.use_keyword
  \/ pc = "search_return" /\ req.include_context /\ sorted_results # <<>>
  \/ pc = "rerank" /\ ShouldRerank(search_results)

CancelledPcResumes(at) == at

(* CancelledError is raised inside the await; no frame of the call handles *)
(* it, so the call ends there                                              *)
CancelledPc(at) == "raised"

(* the caller cancels the task (or its wait_for deadline expires) *)
Cancel ==
  /\ AtAwait
  /\ exception' = Raise("CancelledError", pc)
  /\ pc' = CancelledPc(pc)
  /\ UNCHANGED <<documents, chunkTable, settings, req, processed_query, call,
                 semantic_results, keyword_results, results, sorted_results,
                 search_results, reranked_results, final_context, io_trace, other>>
  /\ UNCHANGED chat

InitFaulty ==
  /\ documents = [d \in DocIds |-> PipelineDocument(d)]
  /\ \E similar \in [ChunkIds -> BOOLEAN] :
       chunkTable = [c \in ChunkIds |-> PipelineChunk(c, similar[c])]
  /\ \E k \in TopKs, ic \in BOOLEAN :
       req = [NoReq EXCEPT !.top_k = k, !.top_k_is_none = (k = None),
                           !.include_context = ic]
  /\ settings = DefaultSettings
  /\ call = NoCall
  /\ processed_query = NoQuery
  /\ pc = "retrieve"
  /\ semantic_results = <<>>
  /\ keyword_results = <<>>
  /\ results = <<>>
  /\ sorted_results = <<>>
  /\ search_results = <<>>
  /\ reranked_results = <<>>
  /\ final_context = NoContext
  /\ exception = NoException
  /\ io_trace = <<>>
  /\ other = NoFrame
  /\ chat = NoChat

NextFaulty ==
  \/ RetrieveStart
  \/ SearchSemantic
  \/ SearchSemanticFails
  \/ SearchKeyword
  \/ ExpandContext
  \/ ExpandContextFails
  \/ SearchOnly
  \/ Rerank
  \/ RerankFails
  \/ SkipRerank
  \/ AssembleContext
  \/ Cancel

SpecFaulty == InitFaulty /\ [][NextFaulty]_vars

FailedCalls == {io_trace[i].call : i \in {j \in 1..Len(io_trace) : ~io_trace[j].ok}}

(* C15: when exactly one search channel fails (the embedding or the       *)
(* vector query, or the keyword query) and the other is enabled and does  *)
(* not fail, no error reaches the caller: retrieve goes on with the       *)
(* surviving channel's list.                                               *)
C15_SingleChannelFailure ==
  (/\ FailedCalls \cap {"embed_query", "search_similar_chunks"} # {}
   /\ call.use_keyword
   /\ "search_keywords" \notin FailedCalls)
    => /\ exception = NoException
       /\ pc # "raised"

(* C16: when a neighbor lookup of the Context Expander fails with a store *)
(* error, retrieve does not abort: expansion is skipped and the result is *)
(* built from the unexpanded fused candidates.                             *)
C16_NeighborLookupFailure ==
  "get_chunk_neighbors" \in FailedCalls
    => /\ exception = NoException
       /\ pc # "raised"
       /\ pc \in {"rerank", "assemble", "done"} => search_results = sorted_results

Cancelled == exception.type = "CancelledError"

(* C19: when the caller cancels a retrieve call that is suspended at an   *)
(* external call, the call ends there with a cancellation error: no later *)
(* stage runs after the cancellation, no RetrievalResult is produced, and *)
(* neither the store nor anything else is written.                         *)
C19_Cancellation ==
  [][/\ Cancelled => UNCHANGED vars
     /\ (~Cancelled /\ Cancelled') =>
          /\ pc' = "raised"
          /\ final_context' = NoContext
          /\ UNCHANGED <<documents, chunkTable, settings, semantic_results,
                         keyword_results, results, sorted_results, search_results,
                         reranked_results, final_context>>
     /\ UNCHANGED <<documents, chunkTable, settings>>]_vars

C19_Witness ==
  /\ Cancelled
  /\ pc = "raised"
  /\ exception.at = "rerank"
  /\ Len(search_results) > 1
  /\ final_context = NoContext

----------------------------------------------------------------------------
(* Context expansion: marking *)

Expanded == req.include_context /\ pc \in {"rerank", "assemble", "done"}
TopCandidates == SubSeq(sorted_results, 1, Min(ExpandTop, Len(sorted_results)))
TopIds == Range(Ids(TopCandidates))

(* C20: after context expansion every one of the top-5 fused candidates   *)
(* is in the expanded output marked as a target (is_target true,          *)
(* is_expanded_context false) with its fused score, and every chunk added *)
(* only as a neighbor is marked context-only; also when a top-5 candidate *)
(* is the sequence neighbor of a higher-ranked top-5 candidate.           *)
C20_TargetsMarked ==
  Expanded =>
    /\ \A i \in 1..Len(TopCandidates) :
         \E j \in 1..Len(search_results) :
           LET e == search_results[j] IN
             /\ e.chunk_id = TopCandidates[i].chunk_id
             /\ e.is_target
             /\ Has(e, "is_expanded_context") /\ ~e.is_expanded_context
             /\ Has(e, "fused_score")
             /\ e.fused_score = TopCandidates[i].fused_score
    /\ \A j \in 1..Len(search_results) :
         search_results[j].chunk_id \notin Range(Ids(sorted_results))
           => /\ ~search_results[j].is_target
              /\ search_results[j].is_expanded_context

(* a top candidate that is listed only as the neighbor of another one *)
TargetAsNeighbor ==
  /\ Expanded
  /\ \E j \in 1..Len(search_results) :
       /\ search_results[j].chunk_id \in TopIds
       /\ search_results[j].is_expanded_context
       /\ ~Has(search_results[j], "fused_score")

----------------------------------------------------------------------------
(* Two retrieve calls on the shared service instances and the shared store. *)
(* The locals of the running call are the variables; the locals of the      *)
(* suspended call are the record other. The event loop hands control over   *)
(* only when the running call awaits, has ended, or has not started.        *)

(* the frame of the running call, to be suspended *)
Suspend(id) ==
  [id |-> id, req |-> req, processed_query |-> processed_query, pc |-> pc,
   call |-> call, semantic_results |-> semantic_results,
   keyword_results |-> keyword_results, results |-> results,
   sorted_results |-> sorted_results, search_results |-> search_results,
   reranked_results |-> reranked_results, final_context |-> final_context,
   exception |-> exception, io_trace |-> io_trace]

(* as if the pool of search() were kept on the service instance *)
ResumeSharedPool(frame) == [frame EXCEPT !.results = results]

(* hybrid_search.py:56, pipeline.py:52-112: every intermediate value of a *)
(* call is a local of its own coroutine frame                             *)
Resume(frame) == frame

CanYield == AtAwait \/ pc \in {"retrieve", "done", "raised"}

Switch ==
  /\ other.id # 0
  /\ other.pc \notin {"done", "raised"}
  /\ CanYield
  /\ other' = Suspend(3 - other.id)
  /\ LET f == Resume(other) IN
       /\ req' = f.req
       /\ processed_query' = f.processed_query
       /\ pc' = f.pc
       /\ call' = f.call
       /\ semantic_results' = f.semantic_results
       /\ keyword_results' = f.keyword_results
       /\ results' = f.results
       /\ sorted_results' = f.sorted_results
       /\ search_results' = f.search_results
       /\ reranked_results' = f.reranked_results
       /\ final_context' = f.final_context
       /\ exception' = f.exception
       /\ io_trace' = f.io_trace
  /\ UNCHANGED <<documents, chunkTable, settings>>
  /\ UNCHANGED chat

ConcurrentChunk(c) == [PipelineChunk(c, c <= 3) EXCEPT !.lexical = (c = 2)]
ConcurrentStore == [c \in ChunkIds |-> ConcurrentChunk(c)]

InitConcurrent ==
  /\ documents = [d \in DocIds |-> PipelineDocument(d)]
  /\ chunkTable = ConcurrentStore
  /\ req = [NoReq EXCEPT !.top_k = 1, !.top_k_is_none = FALSE, !.include_context = TRUE]
  /\ other = [NoFrame EXCEPT
                !.id = 2, !.pc = "retrieve",
                !.req = [NoReq EXCEPT !.top_k = MaxK, !.top_k_is_none = FALSE,
                                      !.doc_type = "finance"]]
  /\ settings = DefaultSettings
  /\ call = NoCall
  /\ processed_query = NoQuery
  /\ pc = "retrieve"
  /\ semantic_results = <<>>
  /\ keyword_results = <<>>
  /\ results = <<>>
  /\ sorted_results = <<>>
  /\ search_results = <<>>
  /\ reranked_results = <<>>
  /\ final_context = NoContext
  /\ exception = NoException
  /\ io_trace = <<>>
  /\ chat = NoChat

NextConcurrent ==
  \/ RetrieveStart
  \/ SearchSemantic
  \/ SearchKeyword
  \/ ExpandContext
  \/ SearchOnly
  \/ Rerank
  \/ SkipRerank
  \/ AssembleContext
  \/ Switch

SpecConcurrent == InitConcurrent /\ [][NextConcurrent]_vars

(* what the running call yields when it runs alone on the store *)
SoloCall == RetrieveCall(processed_query)
SoloSemantic ==
  IF SoloCall.use_semantic
  THEN search_similar_chunks(DefaultK(SoloCall.top_k) * 2, SoloCall.doc_type,
                             SoloCall.department, {})
  ELSE {<<>>}
SoloKeyword ==
  IF SoloCall.use_keyword
  THEN search_keywords(DefaultK(SoloCall.top_k), SoloCall.doc_type, SoloCall.department)
  ELSE {<<>>}
SoloFused ==
  {FuseSortCut(MergeKeyword(MergeSemantic(<<>>, s, 1), k, 1), SoloCall.top_k) :
     s \in SoloSemantic, k \in SoloKeyword}
SoloSearch == {IF req.include_context THEN expand_context(f) ELSE f : f \in SoloFused}
SoloRerankedOf(list) ==
  IF ShouldRerank(list)
  THEN {rerank(list, TopN, scoring) : scoring \in RerankScorings}
  ELSE {Prefix(list, TopN)}
SoloResults ==
  {assemble_context(r) : r \in UNION {SoloRerankedOf(l) : l \in SoloSearch}}

(* C18: two retrieve calls interleaved at their suspension points each    *)
(* produce what they produce when run alone on the same store: the fused  *)
(* list, the expanded list and the result of the running call are among   *)
(* those of a solo run of its request, and the stored chunks and          *)
(* documents are unchanged.                                                *)
C18_Independent ==
  /\ documents = [d \in DocIds |-> PipelineDocument(d)]
  /\ chunkTable = ConcurrentStore
  /\ settings = DefaultSettings
  /\ pc \in {"search_return", "rerank", "assemble", "done"} => sorted_results \in SoloFused
  /\ pc \in {"rerank", "assemble", "done"} => search_results \in SoloSearch
  /\ pc \in {"assemble", "done"} => reranked_results \in SoloRerankedOf(search_results)
  /\ pc = "done" => final_context \in SoloResults
  /\ pc # "raised"

(* both calls are in flight: the first is suspended in its keyword query *)
(* while the second has run up to its assembly                           *)
C18_Witness ==
  /\ pc = "assemble"
  /\ reranked_results # <<>>
  /\ other.id = 1
  /\ other.pc = "search_keyword"
  /\ other.semantic_results # <<>>
  /\ Ids(other.semantic_results) # Ids(semantic_results)

----------------------------------------------------------------------------
(* Context expansion of a fused list longer than the expanded top, on a    *)
(* store from which documents are deleted while the call is in flight      *)

ExpandIds == 1..(ExpandTop + 2)

(* the semantic channel returned the chunks of order, most similar first *)
ExpandChunk(c, order) ==
  [PlainChunk(c) EXCEPT !.sim = IF c \in Range(order) THEN 99 - PosOf(order, c) ELSE 65,
                        !.token_count = 1 + (c % 2),
                        !.lexical = FALSE]

(* documents.py:296-337: the document row and all its chunk rows go *)
delete_document(d) ==
  /\ pc = "search_return"
  /\ d \in DOMAIN documents
  /\ documents' = [x \in DOMAIN documents \ {d} |-> documents[x]]
  /\ chunkTable' = [c \in {x \in DOMAIN chunkTable : chunkTable[x].document_id # d}
                      |-> chunkTable[c]]
  /\ UNCHANGED <<settings, req, processed_query, call, pc, semantic_results,
                 keyword_results, results, sorted_results, search_results,
                 reranked_results, final_context, exception, io_trace, other>>
  /\ UNCHANGED chat

DeleteDocument == \E d \in DocIds : delete_document(d)

InitExpand ==
  /\ documents = [d \in DocIds |-> PlainDocument]
  /\ settings = DefaultSettings
  /\ req = [NoReq EXCEPT !.include_context = TRUE]
  /\ processed_query = NoQuery
  /\ call = [NoCall EXCEPT !.top_k = DefaultK(None)]
  /\ \E n \in 0..Cardinality(ExpandIds) : \E order \in InjSeqs(ExpandIds, n) :
       /\ chunkTable = [c \in ExpandIds |-> ExpandChunk(c, order)]
       /\ semantic_results = [i \in 1..n |-> VectorChunkDict(order[i])]
  /\ keyword_results = <<>>
  /\ results = MergeSemantic(<<>>, semantic_results, 1)
  /\ sorted_results = FuseSortCut(results, call.top_k)
  /\ pc = "search_return"
  /\ search_results = <<>>
  /\ reranked_results = <<>>
  /\ final_context = NoContext
  /\ exception = NoException
  /\ io_trace = <<Issued("embed_query"), Issued("search_similar_chunks"),
                  Issued("search_keywords")>>
  /\ other = NoFrame
  /\ chat = NoChat

NextExpand ==
  \/ DeleteDocument
  \/ ExpandContext

SpecExpand == InitExpand /\ [][NextExpand]_vars

RowExists(c) == c \in DOMAIN chunkTable

(* C21: the expanded candidate list holds every chunk id at most once,    *)
(* whatever the fused list and the overlaps between the expansions.       *)
C21_NoDuplicates ==
  Expanded =>
    \A i, j \in 1..Len(search_results) :
      search_results[i].chunk_id = search_results[j].chunk_id => i = j

(* two expanded targets share their middle neighbor, a target is the     *)
(* neighbor of an earlier one, and the candidate past the expanded top    *)
(* was already added as a neighbor                                        *)
C21_Witness ==
  /\ Expanded
  /\ Len(sorted_results) > ExpandTop
  /\ \A i \in 1..Len(sorted_results) : RowExists(sorted_results[i].chunk_id)
  /\ sorted_results[1].document_id = sorted_results[2].document_id
  /\ chunkTable[sorted_results[1].chunk_id].chunk_index = 0
  /\ chunkTable[sorted_results[2].chunk_id].chunk_index = 2
  /\ \E j \in 1..Len(search_results) :
       /\ search_results[j].chunk_id = sorted_results[ExpandTop + 1].chunk_id
       /\ search_results[j].is_expanded_context
  /\ TargetAsNeighbor

(* the top candidate that brought an entry into the expanded list; a    *)
(* candidate past the expanded top brings itself                         *)
Unexpanded(e) == ~Has(e, "parent_chunk_id")
GroupOf(e) == IF Unexpanded(e) \/ e.is_target THEN e.chunk_id ELSE e.parent_chunk_id
GroupRank(e) == PosOf(Ids(sorted_results), GroupOf(e))

StoredNeighbors(c) ==
  {n \in DOMAIN chunkTable :
     /\ chunkTable[n].document_id = chunkTable[c].document_id
     /\ chunkTable[n].chunk_index >= chunkTable[c].chunk_index - 1
     /\ chunkTable[n].chunk_index <= chunkTable[c].chunk_index + 1}

(* C23: a top-5 candidate whose chunk row is gone when its neighbors are  *)
(* looked up is skipped from the expansion and nothing is raised; the     *)
(* other top-5 candidates are expanded with all their stored neighbors    *)
(* and the expansion returns.                                             *)
C23_MissingRowSkipped ==
  Expanded =>
    /\ exception = NoException
    /\ \A i \in 1..Len(TopCandidates) :
         LET c == TopCandidates[i].chunk_id IN
           IF RowExists(c)
           THEN StoredNeighbors(c) \subseteq Range(Ids(search_results))
           ELSE \A j \in 1..Len(search_results) : GroupOf(search_results[j]) # c

(* the first candidate's document was deleted after the search, a later *)
(* top candidate of the other document is expanded with its neighbors    *)
C23_Witness ==
  /\ Expanded
  /\ pc = "rerank"
  /\ Len(sorted_results) > ExpandTop
  /\ ~RowExists(sorted_results[1].chunk_id)
  /\ RowExists(sorted_results[2].chunk_id)
  /\ Cardinality(StoredNeighbors(sorted_results[2].chunk_id)) = 3
  /\ search_results # <<>>

----------------------------------------------------------------------------
(* Reranker invocation *)

PastRerank == pc \in {"assemble", "done"}

(* C24: per retrieval call, on retrieve and on retrieve_from_document,    *)
(* the reranker is invoked exactly once when reranking is enabled and at  *)
(* least 2 candidates are present, after the search and expansion calls   *)
(* and before context assembly, and not at all when reranking is disabled *)
(* or fewer than 2 candidates are present.                                *)
C24_RerankOnce ==
  /\ PastRerank =>
       IF rerank_enabled /\ Len(search_results) >= 2
       THEN /\ Len(rerank_trace) = 1
            /\ IsRerankCall(io_trace[Len(io_trace)])
       ELSE rerank_trace = <<>>
  /\ ~PastRerank => rerank_trace = <<>>

----------------------------------------------------------------------------
(* Priority order without a table boost *)

NoBoostApplies == \A i \in 1..Len(reranked_results) : ~BoostedTable(reranked_results[i])

(* C25: when no table boost applies, the assembler's priority order is    *)
(* the incoming order, so the packed chunks are a prefix of the incoming  *)
(* list; in particular after context expansion without a rerank the       *)
(* context-only neighbors keep their position next to their target.       *)
C25_IncomingOrderKept ==
  (pc = "done" /\ NoBoostApplies) =>
    /\ PriorityOrder = reranked_results
    /\ final_context.chunks = SubSeq(reranked_results, 1, Len(final_context.chunks))

----------------------------------------------------------------------------
(* Search strategy *)

Channels == {"search_similar_chunks", "search_keywords"}
QueriedChannels == {c \in Channels : \E i \in 1..Len(io_trace) : io_trace[i].call = c}
NamedChannels ==
  IF search_strategy = "hybrid" THEN Channels
  ELSE IF search_strategy = "semantic" THEN {"search_similar_chunks"}
  ELSE {"search_keywords"}

(* C26: for every retrieve call exactly one strategy of keyword-only,     *)
(* semantic-only and hybrid is selected, at least one channel is enabled, *)
(* only the enabled channels are queried, and search_strategy in the      *)
(* retrieval metadata names exactly the channels that were queried, with  *)
(* context expansion on as well as off.                                   *)
C26_StrategyHonoured ==
  pc \in {"search_return", "rerank", "assemble", "done"} =>
    /\ UseSemantic \/ UseKeyword
    /\ QueriedChannels = NamedChannels
    /\ ("search_similar_chunks" \in QueriedChannels) = UseSemantic
    /\ ("search_keywords" \in QueriedChannels) = UseKeyword

(* the same restricted to calls without context expansion *)
StrategyHonouredUnexpanded == ~req.include_context => C26_StrategyHonoured

----------------------------------------------------------------------------
(* Fusion with the two merge blocks of search() taken in the other order *)

KeywordFirstPool == MergeSemantic(MergeKeyword(<<>>, keyword_results, 1), semantic_results, 1)
KeywordFirstFused == FuseSortCut(KeywordFirstPool, call.top_k)
FusedScoreOf(list, c) == list[PosOf(Ids(list), c)].fused_score

(* C27: fusion is order-independent: on the same two input lists the      *)
(* fused ordering and every chunk's fused score are the same whether the  *)
(* semantic list or the keyword list is merged into the pool first, also  *)
(* when chunks of different channels tie on the fused score.              *)
C27_OrderIndependent ==
  pc = "search_return" =>
    /\ Ids(KeywordFirstFused) = Ids(sorted_results)
    /\ \A i \in 1..Len(results) :
         REq(FusedScoreOf(reciprocal_rank_fusion(KeywordFirstPool), results[i].chunk_id),
             results[i].fused_score)

(* the fused scores alone *)
FusedScoresOrderIndependent ==
  pc = "search_return" =>
    /\ Range(Ids(KeywordFirstPool)) = Range(Ids(results))
    /\ \A i \in 1..Len(results) :
         REq(FusedScoreOf(reciprocal_rank_fusion(KeywordFirstPool), results[i].chunk_id),
             results[i].fused_score)

----------------------------------------------------------------------------
(* Token accounting *)

StoredTokens(list) ==
  SumSeq([i \in 1..Len(list) |-> chunkTable[list[i].chunk_id].token_count])

(* C28: total_tokens of a result is the sum of the stored token counts of *)
(* the chunks in final_chunks, whichever path produced them: the search   *)
(* channels, or context expansion as a target or as a neighbor.           *)
C28_TotalTokens ==
  pc = "done" => final_context.total_tokens = StoredTokens(final_context.chunks)

(* the same restricted to calls without context expansion *)
TotalTokensUnexpanded == ~req.include_context => C28_TotalTokens

----------------------------------------------------------------------------
(* retrieve_from_document on stored chunks with every page-number set and *)
(* section title the data model allows                                    *)

NoSection == ""
PageSets == {<<>>, <<1>>}
SectionTitles == {NoSection, "s"}

InitPages ==
  /\ documents = [d \in DocIds |-> PipelineDocument(d)]
  /\ \E pages \in [ChunkIds -> PageSets], sections \in [ChunkIds -> SectionTitles] :
       chunkTable = [c \in ChunkIds |->
                       [PipelineChunk(c, TRUE) EXCEPT !.page_numbers = pages[c],
                                                      !.section_title = sections[c]]]
  /\ \E id \in DocIds : req = [NoReq EXCEPT !.document_id = id]
  /\ settings = DefaultSettings
  /\ call = NoCall
  /\ processed_query = NoQuery
  /\ pc = "doc_retrieve"
  /\ semantic_results = <<>>
  /\ keyword_results = <<>>
  /\ results = <<>>
  /\ sorted_results = <<>>
  /\ search_results = <<>>
  /\ reranked_results = <<>>
  /\ final_context = NoContext
  /\ exception = NoException
  /\ io_trace = <<>>
  /\ other = NoFrame
  /\ chat = NoChat

NextPages ==
  \/ DocRetrieveStart
  \/ DocSearch
  \/ DocRerank
  \/ DocRerankFails
  \/ AssembleContext

SpecPages == InitPages /\ [][NextPages]_vars

SourceOf(chunk) ==
  {i \in 1..Len(final_context.sources) : final_context.sources[i].chunk_id = chunk.chunk_id}

(* C29: context assembly does not raise on any chunk the data model       *)
(* allows, a chunk with an empty page-number set and no section title     *)
(* included; such a chunk is packed and its source entry has no page.     *)
C29_AssemblyTotal ==
  /\ exception.at # "assemble_context"
  /\ pc = "done" =>
       \A i \in 1..Len(final_context.chunks) :
         LET chunk == final_context.chunks[i] IN
           chunk.page_numbers = <<>> =>
             \E j \in SourceOf(chunk) : final_context.sources[j].page = None

----------------------------------------------------------------------------
(* ChatService.chat around RetrievalPipeline.retrieve *)

CaughtIndexErrorOnly(type) == type = "IndexError"

(* chat_service.py:141: except Exception; CancelledError is a BaseException *)
Caught(type) == type # "CancelledError"

(* chat_service.py:128 *)
ChatTopK == 8

(* chat_service.py:260-270 with is_error true *)
Rejected == [NoResponse EXCEPT !.status = "rejected"]

(* chat_service.py:72-132: validation, the decision to search, the call  *)
(* of retrieve with top_k 8 and include_context true                     *)
ChatStart ==
  /\ chat.pc = "chat"
  /\ \E valid, search \in BOOLEAN :
       IF ~valid
       THEN /\ chat' = [chat EXCEPT !.pc = "returned", !.response = Rejected]
            /\ UNCHANGED <<pc, req>>
       ELSE IF search
       THEN /\ chat' = [chat EXCEPT !.pc = "retrieving", !.should_search = TRUE]
            /\ req' = [NoReq EXCEPT !.top_k = ChatTopK, !.top_k_is_none = FALSE,
                                    !.include_context = TRUE]
            /\ pc' = "retrieve"
       ELSE /\ chat' = [chat EXCEPT !.pc = "generate"]
            /\ UNCHANGED <<pc, req>>
  /\ UNCHANGED <<documents, chunkTable, settings, processed_query, call,
                 semantic_results, keyword_results, results, sorted_results,
                 search_results, reranked_results, final_context, exception,
                 io_trace, other>>

(* chat_service.py:134-139 *)
ChatRetrieved ==
  /\ chat.pc = "retrieving"
  /\ pc = "done"
  /\ chat' = [chat EXCEPT !.pc = "generate",
                          !.context = final_context.context_text,
                          !.sources = final_context.sources,
                          !.chunks_used = Len(final_context.chunks)]
  /\ UNCHANGED <<documents, chunkTable, settings, req, processed_query, pc, call,
                 semantic_results, keyword_results, results, sorted_results,
                 search_results, reranked_results, final_context, exception,
                 io_trace, other>>

(* chat_service.py:141-145 *)
ChatRetrievalFailed ==
  /\ chat.pc = "retrieving"
  /\ pc = "raised"
  /\ Caught(exception.type)
  /\ chat' = [chat EXCEPT !.pc = "generate", !.retrieval_failed = TRUE,
                          !.context = <<>>, !.sources = <<>>]
  /\ UNCHANGED <<documents, chunkTable, settings, req, processed_query, pc, call,
                 semantic_results, keyword_results, results, sorted_results,
                 search_results, reranked_results, final_context, exception,
                 io_trace, other>>

(* an exception the handler of chat_service.py:141 does not catch leaves chat *)
ChatRetrievalEscapes ==
  /\ chat.pc = "retrieving"
  /\ pc = "raised"
  /\ ~Caught(exception.type)
  /\ chat' = [chat EXCEPT !.pc = "failed"]
  /\ UNCHANGED <<documents, chunkTable, settings, req, processed_query, pc, call,
                 semantic_results, keyword_results, results, sorted_results,
                 search_results, reranked_results, final_context, exception,
                 io_trace, other>>

(* chat_service.py:146-225: the answer is generated from context and     *)
(* sources, or generation raises (always when stream is set: awaiting    *)
(* the async generator of _chat_stream is a TypeError) and the handler   *)
(* substitutes a fixed answer; the response is built in both cases       *)
ChatGenerate ==
  /\ chat.pc = "generate"
  /\ \E generated \in (IF chat.stream THEN {FALSE} ELSE BOOLEAN) :
       chat' = [chat EXCEPT
                  !.pc = "returned",
                  !.generated_with = IF generated THEN <<"answer", chat.context, chat.sources>>
                                     ELSE <<"fallback", chat.context, chat.sources>>,
                  !.response = [status |-> "success",
                                chunks_used |-> chat.chunks_used,
                                sources |-> chat.sources,
                                searched_documents |-> chat.should_search]]
  /\ UNCHANGED <<documents, chunkTable, settings, req, processed_query, pc, call,
                 semantic_results, keyword_results, results, sorted_results,
                 search_results, reranked_results, final_context, exception,
                 io_trace, other>>

InitChat ==
  /\ documents = [d \in DocIds |-> PipelineDocument(d)]
  /\ \E similar \in [ChunkIds -> BOOLEAN] :
       chunkTable = [c \in ChunkIds |-> PipelineChunk(c, similar[c])]
  /\ \E stream \in BOOLEAN : chat = [NoChat EXCEPT !.pc = "chat", !.stream = stream]
  /\ req = NoReq
  /\ settings = DefaultSettings
  /\ call = NoCall
  /\ processed_query = NoQuery
  /\ pc = "idle"
  /\ semantic_results = <<>>
  /\ keyword_results = <<>>
  /\ results = <<>>
  /\ sorted_results = <<>>
  /\ search_results = <<>>
  /\ reranked_results = <<>>
  /\ final_context = NoContext
  /\ exception = NoException
  /\ io_trace = <<>>
  /\ other = NoFrame

NextChat ==
  \/ ChatStart
  \/ RetrieveStart
  \/ SearchSemantic
  \/ SearchSemanticFails
  \/ SearchKeyword
  \/ ExpandContext
  \/ ExpandContextFails
  \/ Rerank
  \/ RerankFails
  \/ SkipRerank
  \/ AssembleContext
  \/ Cancel
  \/ ChatRetrieved
  \/ ChatRetrievalFailed
  \/ ChatRetrievalEscapes
  \/ ChatGenerate

SpecChat == InitChat /\ [][NextChat]_vars

PipelineError == pc = "raised" /\ exception.type # "CancelledError"

(* C30: when retrieve raises an error during the document search of      *)
(* chat, the chat call does not fail: it goes on to answer generation    *)
(* with an empty context and an empty source list and returns a response *)
(* with status success whose metadata reports 0 chunks used.             *)
C30_RetrievalErrorAbsorbed ==
  (PipelineError /\ chat.pc # "retrieving") =>
    /\ chat.pc \in {"generate", "returned"}
    /\ chat.context = <<>>
    /\ chat.sources = <<>>
    /\ chat.pc = "returned" =>
         /\ chat.generated_with \in {<<"answer", <<>>, <<>>>>, <<"fallback", <<>>, <<>>>>}
         /\ chat.response.status = "success"
         /\ chat.response.chunks_used = 0
         /\ chat.response.sources = <<>>

(* the third neighbor lookup failed after two chunks were found, and     *)
(* chat returned an answer generated without context                     *)
C30_Witness ==
  /\ pc = "raised"
  /\ exception = Raise("Exception", "get_chunk_neighbors")
  /\ Len(sorted_results) >= 2
  /\ chat.pc = "returned"
  /\ chat.generated_with[1] = "answer"
  /\ chat.response.status = "success"

====
